---- MODULE Spec2Model ----
(***************************************************************************)
(* The record splitters of oxkair-shell/scripts, the report scripts        *)
(* extract_hcpcs_codes.py and parseLogExecutionTime.py, and the search     *)
(* helper azure_rag.py, as state machines over an output directory.        *)
(*                                                                         *)
(* A string is a sequence of atoms.  An atom is one character that the     *)
(* code treats specially (a space, an en-dash, an em-dash, a hyphen) or a  *)
(* run of ordinary characters ("HCPCS", "A1", "widget").  A JSON / Python  *)
(* value is a record [t, v]: t is its type tag and v its payload.          *)
(***************************************************************************)
EXTENDS Integers, Sequences, FiniteSets, TLC

VARIABLES
    script,     \* which program runs: "split", "cci", "rvu", "icd", "extract",
                \* "traces", "search"
    doc,        \* the content of the input file, as json.load would return it
    denied,     \* the file names open(path, "w") fails on (deterministic)
    fs,         \* the output directory: file name -> content
    dirMade,    \* os.makedirs(output directory) was called
    pc,         \* "start", "loop", "done" (normal end), "aborted" (exception / sys.exit(1))
    i,          \* number of top-level items of the input consumed by the loop
    count,      \* parse_big_rvu_file.py: count
    log,        \* what the run printed (stdout, or the traceback on stderr)
    exit,       \* exit status of the process, -1 while it runs
    writes,     \* the files this run has written, in order (two runs at once:
                \* the last write of each file)
    todo,       \* parse_icd_tab.py: the process_diag_entry calls not yet made
    codes,      \* extract_hcpcs_codes.py: codes
    run,        \* 1 for the first run on this input, 2 for the re-run
    fs1,        \* the output directory as it was when this run started
    entries,    \* parseLogExecutionTime.py: entries, what parse_traces returned
    out,        \* azure_rag.py: what search returned
    procs       \* the runs of a splitter that share the output directory

vars == <<script, doc, denied, fs, dirMade, pc, i, count, log, exit, writes,
          todo, codes, run, fs1, entries, out, procs>>

----------------------------------------------------------------------------
(* Bounds of the inputs. *)

MaxRecs == 2        \* entries of a list input, keys of a mapping input
MaxFields == 2      \* fields of the record of SpecRecord
MaxEntries == 3     \* diag entries, at all depths, of a nested-tree input
MaxLen == 3         \* atoms of a description of SpecExtract

----------------------------------------------------------------------------
(* Strings. *)

Space == " "
EnDash == "u2013"
EmDash == "u2014"
Hyphen == "-"

IsSpace(a) == a = Space

RECURSIVE LStrip(_)
LStrip(s) == IF s # <<>> /\ IsSpace(Head(s)) THEN LStrip(Tail(s)) ELSE s

RECURSIVE RStrip(_)
RStrip(s) ==
    IF s # <<>> /\ IsSpace(s[Len(s)]) THEN RStrip(SubSeq(s, 1, Len(s) - 1)) ELSE s

\* str.strip()
Strip(s) == RStrip(LStrip(s))

\* str.replace(old, new) for one-character old and new
Replace(s, old, new) == [k \in 1..Len(s) |-> IF s[k] = old THEN new ELSE s[k]]

\* str.startswith(p)
StartsWith(s, p) == Len(p) <= Len(s) /\ SubSeq(s, 1, Len(p)) = p

----------------------------------------------------------------------------
(* Values, as json.load builds them and json.dump writes them.  A dict is  *)
(* the sequence of its <<key, value>> items in insertion order.            *)

PyNone == [t |-> "null", v |-> <<>>]
PyNaN == [t |-> "NaN", v |-> <<>>]
PyStr(s) == [t |-> "str", v |-> s]
PyNum(d) == [t |-> "num", v |-> <<d>>]
PyList(xs) == [t |-> "list", v |-> xs]
PyDict(items) == [t |-> "dict", v |-> items]
PyTuple(xs) == [t |-> "tuple", v |-> xs]
Malformed == [t |-> "malformed", v |-> <<>>]

\* str(x)
Str(val) ==
    CASE val.t = "str" -> val.v
      [] val.t = "NaN" -> <<"nan">>
      [] val.t = "null" -> <<"None">>
      [] val.t = "num" -> val.v
      [] val.t = "list" -> <<"[..]">>
      [] OTHER -> <<"{..}">>

HasKey(items, key) == \E k \in 1..Len(items) : items[k][1] = key

\* dict.get(key, default)
GetDefault(items, key, default) ==
    IF HasKey(items, key)
    THEN items[CHOOSE k \in 1..Len(items) : items[k][1] = key][2]
    ELSE default

\* bool(x)
Truthy(val) ==
    CASE val.t = "null" -> FALSE
      [] val.t = "num" -> val.v # <<"0">>
      [] OTHER -> val.t = "NaN" \/ val.v # <<>>

RECURSIVE Concat(_)
Concat(seqs) == IF seqs = <<>> THEN <<>> ELSE Head(seqs) \o Concat(Tail(seqs))

\* dict.get(key)
Get(items, key) ==
    IF HasKey(items, key)
    THEN items[CHOOSE k \in 1..Len(items) : items[k][1] = key][2]
    ELSE PyNone

\* d.setdefault(key, val): the value of a key that is there stays
SetDefault(items, key, val) ==
    IF HasKey(items, key) THEN items ELSE Append(items, <<key, val>>)

\* d[key] = val
SetItem(items, key, val) ==
    IF HasKey(items, key)
    THEN [k \in 1..Len(items) |->
            IF items[k][1] = key THEN <<key, val>> ELSE items[k]]
    ELSE Append(items, <<key, val>>)

----------------------------------------------------------------------------
(* The output directory. *)

\* one name for every record
FileNameFixed(code) == <<"record", ".json">>

FileName(code) == code \o <<".json">>

\* open(out_path, "a"): a file that exists keeps what it held
WriteFileAppend(dir, name, content) ==
    [n \in DOMAIN dir \cup {name} |->
        IF n # name THEN dir[n]
        ELSE IF name \in DOMAIN dir THEN PyList(<<dir[name], content>>)
        ELSE content]

\* open(out_path, "x") with the error passed over: the first record of a
\* code stays
WriteFileOnce(dir, name, content) ==
    [n \in DOMAIN dir \cup {name} |->
        IF n = name /\ name \notin DOMAIN dir THEN content ELSE dir[n]]

WriteFile(dir, name, content) ==
    [n \in DOMAIN dir \cup {name} |-> IF n = name THEN content ELSE dir[n]]

NoFiles == [n \in {} |-> PyNone]

StaleContent == PyStr(<<"stale">>)

----------------------------------------------------------------------------
(* What every script does when an exception escapes (a traceback on stderr *)
(* and exit status 1) and when a file is opened for writing and dumped.    *)

Abort(printed, message) ==
    /\ pc' = "aborted"
    /\ exit' = 1
    /\ log' = Append(printed, <<message, i + 1>>)

Raise(exc) == Abort(log, exc)

\* with open(out_path, "w") as f: json.dump(content, f)
Dumped(name, content, src) ==
    /\ fs' = WriteFile(fs, name, content)
    /\ writes' = Append(writes, [name |-> name, content |-> content, src |-> src])

----------------------------------------------------------------------------
(* parse_big_rvu_file.py: the list splitter. *)

HCPCS == <<"HCPCS">>

\* line 11 without .strip()
normalize_key_unstripped(key) == Replace(key, EnDash, Hyphen)

\* line 11
normalize_key(key) == Strip(Replace(key, EnDash, Hyphen))

normalize_value(val) ==
    IF val.t = "NaN" THEN PyNone
    ELSE IF val.t = "str" THEN PyStr(Strip(val.v))
    ELSE val

\* the loop of lines 57-61 over rec.items(), from the empty dict acc
RECURSIVE CleanItems(_, _)
CleanItems(items, acc) ==
    IF items = <<>> THEN acc
    ELSE CleanItems(Tail(items),
                    SetItem(acc, normalize_key(Head(items)[1]),
                                 normalize_value(Head(items)[2])))

\* the test of line 52 left out
IsNoneDropped(raw_code) == FALSE

\* raw_code is None (line 52)
IsNone(raw_code) == raw_code.t = "null"

\* the code passed through normalize_key
RvuCodeNormalized(raw_code) == Strip(Replace(Str(raw_code), EnDash, Hyphen))

\* line 55
RvuCode(raw_code) == Strip(Str(raw_code))

\* cleaned without line 63
CleanedAsCopied(rec, code) == CleanItems(rec.v, <<>>)

\* cleaned, as it is dumped at line 67
Cleaned(rec, code) == SetItem(CleanItems(rec.v, <<>>), HCPCS, PyStr(code))

\* a document that does not parse read as an empty list
RvuLoadLenient ==
    /\ script = "rvu" /\ pc = "start"
    /\ IF doc.t \notin {"list", "malformed"}
       THEN Raise("ValueError") /\ UNCHANGED dirMade
       ELSE /\ dirMade' = TRUE
            /\ pc' = "loop"
            /\ UNCHANGED <<exit, log>>
    /\ UNCHANGED <<entries, out, procs>>
    /\ UNCHANGED <<script, doc, denied, fs, i, count, writes, todo, codes, run, fs1>>

\* lines 40-46
RvuLoad ==
    /\ script = "rvu" /\ pc = "start"
    /\ IF doc.t = "malformed"
       THEN Raise("JSONDecodeError") /\ UNCHANGED dirMade
       ELSE IF doc.t # "list"
       THEN Raise("ValueError") /\ UNCHANGED dirMade
       ELSE /\ dirMade' = TRUE
            /\ pc' = "loop"
            /\ UNCHANGED <<exit, log>>
    /\ UNCHANGED <<entries, out, procs>>
    /\ UNCHANGED <<script, doc, denied, fs, i, count, writes, todo, codes, run, fs1>>

\* one iteration of the loop of lines 50-69
RvuRecord ==
    /\ script = "rvu" /\ pc = "loop" /\ i < Len(doc.v)
    /\ LET rec == doc.v[i + 1] IN
       IF rec.t # "dict"
       THEN Raise("AttributeError") /\ UNCHANGED <<fs, writes, i, count>>
       ELSE LET raw_code == Get(rec.v, HCPCS) IN
            IF IsNone(raw_code)
            THEN /\ log' = Append(log, <<"Skipping record without HCPCS", i + 1>>)
                 /\ i' = i + 1
                 /\ UNCHANGED <<pc, exit, fs, writes, count>>
            ELSE LET code == RvuCode(raw_code)
                     out_path == FileName(code)
                 IN  IF out_path \in denied
                     THEN Raise("OSError") /\ UNCHANGED <<fs, writes, i, count>>
                     ELSE /\ Dumped(out_path, PyDict(Cleaned(rec, code)), i + 1)
                          /\ count' = count + 1
                          /\ i' = i + 1
                          /\ UNCHANGED <<pc, exit, log>>
    /\ UNCHANGED <<entries, out, procs>>
    /\ UNCHANGED <<script, doc, denied, dirMade, todo, codes, run, fs1>>

\* line 71
RvuDone ==
    /\ script = "rvu" /\ pc = "loop" /\ i = Len(doc.v)
    /\ log' = Append(log, <<"Processed", count>>)
    /\ pc' = "done"
    /\ exit' = 0
    /\ UNCHANGED <<entries, out, procs>>
    /\ UNCHANGED <<script, doc, denied, fs, dirMade, i, count, writes, todo, codes,
                   run, fs1>>

NextRvu == RvuLoad \/ RvuRecord \/ RvuDone

----------------------------------------------------------------------------
(* split_json_records.py: the flat-mapping splitter. *)

\* lines 12-19: makedirs, json.load, data.items()
SplitLoad ==
    /\ script = "split" /\ pc = "start"
    /\ dirMade' = TRUE
    /\ IF doc.t = "malformed" THEN Raise("JSONDecodeError")
       ELSE IF doc.t # "dict" THEN Raise("AttributeError")
       ELSE pc' = "loop" /\ UNCHANGED <<exit, log>>
    /\ UNCHANGED <<entries, out, procs>>
    /\ UNCHANGED <<script, doc, denied, fs, i, count, writes, todo, codes, run, fs1>>

\* one iteration of the loop of lines 19-22
SplitRecord ==
    /\ script = "split" /\ pc = "loop" /\ i < Len(doc.v)
    /\ LET code == doc.v[i + 1][1]
           record == doc.v[i + 1][2]
           out_path == FileName(code)
       IN  IF out_path \in denied
           THEN Raise("OSError") /\ UNCHANGED <<fs, writes, i>>
           ELSE /\ Dumped(out_path, record, i + 1)
                /\ i' = i + 1
                /\ UNCHANGED <<pc, exit, log>>
    /\ UNCHANGED <<entries, out, procs>>
    /\ UNCHANGED <<script, doc, denied, dirMade, count, todo, codes, run, fs1>>

\* line 24
SplitDone ==
    /\ script = "split" /\ pc = "loop" /\ i = Len(doc.v)
    /\ log' = Append(log, <<"Split", Len(doc.v)>>)
    /\ pc' = "done"
    /\ exit' = 0
    /\ UNCHANGED <<entries, out, procs>>
    /\ UNCHANGED <<script, doc, denied, fs, dirMade, i, count, writes, todo, codes,
                   run, fs1>>

NextSplit == SplitLoad \/ SplitRecord \/ SplitDone

----------------------------------------------------------------------------
(* parse_cci_practitioner.py: the NCCI splitter. *)

cci_edits == <<"cci_edits">>

\* line 24
CciBanner == Append(log, <<"Using output directory", 0>>)

\* lines 23-41
CciLoad ==
    /\ script = "cci" /\ pc = "start"
    /\ dirMade' = TRUE
    /\ IF doc.t = "malformed" THEN Abort(CciBanner, "Error: Failed to parse JSON")
       ELSE IF doc.t # "dict" THEN Abort(CciBanner, "AttributeError")
       ELSE IF Get(doc.v, cci_edits).t # "dict"
       THEN Abort(CciBanner, "Error: Expected top-level key 'cci_edits'")
       ELSE pc' = "loop" /\ log' = CciBanner /\ UNCHANGED exit
    /\ UNCHANGED <<entries, out, procs>>
    /\ UNCHANGED <<script, doc, denied, fs, i, count, writes, todo, codes, run, fs1>>

\* one iteration of the loop of lines 44-51
CciRecord ==
    /\ script = "cci" /\ pc = "loop"
    /\ LET edits == Get(doc.v, cci_edits).v IN
       /\ i < Len(edits)
       /\ LET code == edits[i + 1][1]
              details == edits[i + 1][2]
              output_path == FileName(code)
          IN  IF output_path \in denied
              THEN /\ log' = Append(log, <<"Warning: Could not write", i + 1>>)
                   /\ UNCHANGED <<fs, writes>>
              ELSE /\ Dumped(output_path, details, i + 1)
                   /\ UNCHANGED log
    /\ i' = i + 1
    /\ UNCHANGED <<entries, out, procs>>
    /\ UNCHANGED <<script, doc, denied, dirMade, pc, exit, count, todo, codes, run, fs1>>

\* line 53
CciDone ==
    /\ script = "cci" /\ pc = "loop" /\ i = Len(Get(doc.v, cci_edits).v)
    /\ log' = Append(log, <<"Done: individual code files created.", 0>>)
    /\ pc' = "done"
    /\ exit' = 0
    /\ UNCHANGED <<entries, out, procs>>
    /\ UNCHANGED <<script, doc, denied, fs, dirMade, i, count, writes, todo, codes,
                   run, fs1>>

NextCci == CciLoad \/ CciRecord \/ CciDone

----------------------------------------------------------------------------
(* parse_icd_tab.py: the nested-tree splitter.  The inputs have a list of  *)
(* dicts under "chapter", a list under "section" and a list under "diag".  *)

tabular == <<"ICD10CM.tabular">>
chapter == <<"chapter">>
section == <<"section">>
diag == <<"diag">>
name == <<"name">>
desc == <<"desc">>
id == <<"id">>
note == <<"note">>

\* lines 19-28
extract_notes(note_obj) ==
    IF note_obj.t = "dict" /\ HasKey(note_obj.v, note)
    THEN LET note_content == Get(note_obj.v, note) IN
         IF note_content.t = "list"
         THEN [k \in 1..Len(note_content.v) |->
                 LET item == note_content.v[k] IN
                 IF item.t # "dict" THEN PyStr(Str(item))
                 ELSE GetDefault(item.v, note, PyStr(<<>>))]
         ELSE IF note_content.t = "dict" /\ HasKey(note_content.v, note)
         THEN <<PyStr(Str(Get(note_content.v, note)))>>
         ELSE <<PyStr(Str(note_content))>>
    ELSE <<>>

\* lines 42-46, 50-54: the notes one "note" value adds to inclusion_terms
NoteItems(note_content) ==
    IF note_content.t = "list" THEN note_content.v ELSE <<note_content>>

\* lines 38-56
InclusionTerms(entry) ==
    LET inc_term == Get(entry.v, <<"inclusionTerm">>) IN
    IF ~HasKey(entry.v, <<"inclusionTerm">>) THEN <<>>
    ELSE IF inc_term.t = "dict" /\ HasKey(inc_term.v, note)
    THEN NoteItems(Get(inc_term.v, note))
    ELSE IF inc_term.t = "list"
    THEN Concat([k \in 1..Len(inc_term.v) |->
                    LET item == inc_term.v[k] IN
                    IF item.t = "dict" /\ HasKey(item.v, note)
                    THEN NoteItems(Get(item.v, note))
                    ELSE <<>>])
    ELSE IF inc_term.t = "str" THEN <<inc_term>>
    ELSE <<>>

\* lines 58-70
Excludes1(entry) ==
    LET exc1_term == Get(entry.v, <<"excludes1">>) IN
    IF ~HasKey(entry.v, <<"excludes1">>) THEN PyNone
    ELSE IF exc1_term.t = "dict" /\ HasKey(exc1_term.v, note)
    THEN PyList(NoteItems(Get(exc1_term.v, note)))
    ELSE IF exc1_term.t = "list" THEN exc1_term
    ELSE IF exc1_term.t = "str" THEN PyList(<<exc1_term>>)
    ELSE PyNone

\* lines 73-81
NotesList(entry) ==
    Concat([k \in 1..4 |->
        LET key == <<"notes", "useAdditionalCode", "codeAlso", "sevenChrDef">>[k] IN
        IF HasKey(entry.v, <<key>>) THEN extract_notes(Get(entry.v, <<key>>))
        ELSE <<>>])

\* "\n".join(notes_list) raises TypeError unless every element is a str
Joinable(notes_list) == \A k \in 1..Len(notes_list) : notes_list[k].t = "str"

RECURSIVE JoinLines(_)
JoinLines(notes_list) ==
    IF Len(notes_list) = 1 THEN Head(notes_list).v
    ELSE Head(notes_list).v \o <<"\n">> \o JoinLines(Tail(notes_list))

\* line 37
Qualifies(entry) == Truthy(Get(entry.v, name)) /\ Truthy(Get(entry.v, desc))

\* lines 86-94
individual_code_data(entry, current_chapter_name, current_block_name) ==
    LET inclusion_terms == InclusionTerms(entry)
        notes_list == NotesList(entry)
    IN  PyDict(<< <<<<"code">>, Get(entry.v, name)>>,
                  <<<<"description">>, Get(entry.v, desc)>>,
                  <<<<"chapter">>, current_chapter_name>>,
                  <<<<"block">>, current_block_name>>,
                  <<<<"inclusionTerms">>,
                    IF inclusion_terms # <<>> THEN PyList(inclusion_terms) ELSE PyNone>>,
                  <<<<"excludes1">>, Excludes1(entry)>>,
                  <<<<"notes">>,
                    IF notes_list # <<>> THEN PyStr(JoinLines(notes_list)) ELSE PyNone>> >>)

\* "elif" for the "if" of line 101
SubCallsElif(call) ==
    IF Qualifies(call.entry) \/ ~HasKey(call.entry.v, diag) THEN <<>>
    ELSE LET subs == Get(call.entry.v, diag).v IN
         [k \in 1..Len(subs) |->
             [entry |-> subs[k], chapter |-> call.chapter, block |-> call.block]]

\* lines 101-103 moved into the branch of line 37
SubCallsOfRecords(call) ==
    IF Qualifies(call.entry) /\ HasKey(call.entry.v, diag)
    THEN LET subs == Get(call.entry.v, diag).v IN
         [k \in 1..Len(subs) |->
             [entry |-> subs[k], chapter |-> call.chapter, block |-> call.block]]
    ELSE <<>>

\* "break" at the end of the loop of lines 102-103
SubCallsFirstOnly(call) ==
    IF HasKey(call.entry.v, diag) /\ Get(call.entry.v, diag).v # <<>>
    THEN <<[entry |-> Head(Get(call.entry.v, diag).v),
            chapter |-> call.chapter, block |-> call.block]>>
    ELSE <<>>

\* lines 101-103: the recursive calls one call makes, in order
SubCalls(call) ==
    IF HasKey(call.entry.v, diag)
    THEN LET subs == Get(call.entry.v, diag).v IN
         [k \in 1..Len(subs) |->
             [entry |-> subs[k], chapter |-> call.chapter, block |-> call.block]]
    ELSE <<>>

\* lines 109-116, for one section_entry of the chapter named chapter_name
SectionCalls(section_entry, chapter_name) ==
    IF section_entry.t # "dict" THEN <<>>
    ELSE LET diagnoses == GetDefault(section_entry.v, diag, PyList(<<>>)).v IN
         [k \in 1..Len(diagnoses) |->
             [entry |-> diagnoses[k], chapter |-> chapter_name,
              block |-> Get(section_entry.v, id)]]

\* lines 105-116: the calls the top-level loops make, in order
TopCalls(chapters) ==
    Concat([c \in 1..Len(chapters) |->
        LET sections == GetDefault(chapters[c].v, section, PyList(<<>>)).v IN
        Concat([k \in 1..Len(sections) |->
                   SectionCalls(sections[k], Get(chapters[c].v, name))])])

\* lines 9-17
IcdLoad ==
    /\ script = "icd" /\ pc = "start"
    /\ dirMade' = TRUE
    /\ IF doc.t = "malformed" THEN Raise("JSONDecodeError") /\ UNCHANGED todo
       ELSE IF doc.t # "dict" THEN Raise("AttributeError") /\ UNCHANGED todo
       ELSE LET data == GetDefault(doc.v, tabular, PyDict(<<>>)) IN
            IF data.t # "dict" THEN Raise("AttributeError") /\ UNCHANGED todo
            ELSE /\ todo' = TopCalls(GetDefault(data.v, chapter, PyList(<<>>)).v)
                 /\ pc' = "loop"
                 /\ UNCHANGED <<exit, log>>
    /\ UNCHANGED <<entries, out, procs>>
    /\ UNCHANGED <<script, doc, denied, fs, i, count, writes, codes, run, fs1>>

\* one call of process_diag_entry, lines 30-103; the calls it makes are
\* put in front of the calls that wait
IcdEntry ==
    /\ script = "icd" /\ pc = "loop" /\ todo # <<>>
    /\ LET call == Head(todo)
           entry == call.entry
       IN  IF entry.t # "dict"
           THEN /\ todo' = Tail(todo)
                /\ i' = i + 1
                /\ UNCHANGED <<pc, exit, log, fs, writes>>
           ELSE IF ~Qualifies(entry)
           THEN /\ todo' = SubCalls(call) \o Tail(todo)
                /\ i' = i + 1
                /\ UNCHANGED <<pc, exit, log, fs, writes>>
           ELSE LET output_file_path == FileName(Str(Get(entry.v, name))) IN
                IF ~Joinable(NotesList(entry))
                THEN Raise("TypeError") /\ UNCHANGED <<todo, i, fs, writes>>
                ELSE IF output_file_path \in denied
                THEN Raise("OSError") /\ UNCHANGED <<todo, i, fs, writes>>
                ELSE /\ Dumped(output_file_path,
                               individual_code_data(entry, call.chapter, call.block),
                               i + 1)
                     /\ log' = Append(log, <<"Created", i + 1>>)
                     /\ todo' = SubCalls(call) \o Tail(todo)
                     /\ i' = i + 1
                     /\ UNCHANGED <<pc, exit>>
    /\ UNCHANGED <<entries, out, procs>>
    /\ UNCHANGED <<script, doc, denied, dirMade, count, codes, run, fs1>>

\* the loops of lines 105-116 are over
IcdDone ==
    /\ script = "icd" /\ pc = "loop" /\ todo = <<>>
    /\ pc' = "done"
    /\ exit' = 0
    /\ UNCHANGED <<entries, out, procs>>
    /\ UNCHANGED <<script, doc, denied, fs, dirMade, i, count, log, writes, todo,
                   codes, run, fs1>>

NextIcd == IcdLoad \/ IcdEntry \/ IcdDone

----------------------------------------------------------------------------
(* extract_hcpcs_codes.py.  doc is os.listdir(json_dir) with what each     *)
(* file holds: a sequence of [fname, data].                                *)

\* the code point of the first character of an atom
Ord(a) ==
    CASE a = Space -> 32
      [] a = Hyphen -> 45
      [] a \in {"1", "1970-01-01T00:00:0"} -> 49
      [] a = "2" -> 50
      [] a = "3" -> 51
      [] a = "4" -> 52
      [] a = ":" -> 58
      [] a = "A" -> 65
      [] a = "B" -> 66
      [] a = "None" -> 78
      [] a = "soon" -> 115
      [] OTHER -> 119

\* s < t on str
RECURSIVE Less(_, _)
Less(s, t) ==
    IF t = <<>> THEN FALSE
    ELSE IF s = <<>> THEN TRUE
    ELSE IF Head(s) # Head(t) THEN Ord(Head(s)) < Ord(Head(t))
    ELSE Less(Tail(s), Tail(t))

RECURSIVE Insert(_, _)
Insert(sorted, s) ==
    IF sorted = <<>> THEN <<s>>
    ELSE IF Less(s, Head(sorted)) THEN <<s>> \o sorted
    ELSE <<Head(sorted)>> \o Insert(Tail(sorted), s)

\* list.sort() on a list of str
RECURSIVE Sorted(_)
Sorted(xs) == IF xs = <<>> THEN <<>> ELSE Insert(Sorted(SubSeq(xs, 1, Len(xs) - 1)), xs[Len(xs)])

UpperAlnum == {"A", "B", "1"}

\* code_pattern.match(filename), line 11: an atom of UpperAlnum is a run of [A-Z0-9]
Matches(fname) ==
    /\ Len(fname) = 4
    /\ fname[1] \in UpperAlnum /\ fname[2] = Hyphen /\ fname[3] \in UpperAlnum
    /\ fname[4] = ".json"

\* line 24 without the test of line 23
CleanDescriptionAlways(code, description) ==
    Strip(SubSeq(description, Len(code) + 2, Len(description)))

\* lines 23-24
CleanDescription(code, description) ==
    IF StartsWith(description, code \o <<Space>>)
    THEN Strip(SubSeq(description, Len(code) + 2, Len(description)))
    ELSE description

\* line 25
CodeInfo(code, description) == code \o <<":", Space>> \o description

output_md_file == <<"hcpcs_codes.md">>

\* one iteration of the loop of lines 13-29
ExtractFile ==
    /\ script = "extract" /\ pc = "start" /\ i < Len(doc)
    /\ LET file == doc[i + 1]
           data == file.data
       IN  IF ~Matches(file.fname) THEN UNCHANGED <<codes, log>>
           ELSE IF data.t = "malformed"
           THEN codes' = codes /\ log' = Append(log, <<"Error decoding JSON", i + 1>>)
           ELSE IF data.t # "dict"
           THEN codes' = codes /\ log' = Append(log, <<"An error occurred", i + 1>>)
           ELSE IF ~(HasKey(data.v, <<"code">>) /\ HasKey(data.v, <<"description">>))
           THEN UNCHANGED <<codes, log>>
           ELSE LET code == Get(data.v, <<"code">>)
                    description == Get(data.v, <<"description">>)
                IN  IF code.t # "str" \/ description.t # "str"
                    THEN codes' = codes /\ log' = Append(log, <<"An error occurred", i + 1>>)
                    ELSE /\ codes' = Append(codes,
                               CodeInfo(code.v, CleanDescription(code.v, description.v)))
                         /\ UNCHANGED log
    /\ i' = i + 1
    /\ UNCHANGED <<entries, out, procs>>
    /\ UNCHANGED <<script, doc, denied, fs, dirMade, pc, exit, count, writes, todo,
                   run, fs1>>

\* lines 31-36 and 42
ExtractDone ==
    /\ script = "extract" /\ pc = "start" /\ i = Len(doc)
    /\ codes' = Sorted(codes)
    /\ IF output_md_file \in denied
       THEN Raise("OSError") /\ UNCHANGED <<fs, writes>>
       ELSE /\ Dumped(output_md_file,
                      PyList(<<<<"# HCPCS Codes and Descriptions">>, <<>>>>
                             \o [k \in 1..Len(codes) |->
                                    <<Hyphen, Space>> \o Sorted(codes)[k]]),
                      0)
            /\ log' = Append(log, <<"Extracted HCPCS codes", 0>>)
            /\ pc' = "done"
            /\ exit' = 0
    /\ UNCHANGED <<entries, out, procs>>
    /\ UNCHANGED <<script, doc, denied, dirMade, i, count, todo, run, fs1>>

NextExtract == ExtractFile \/ ExtractDone

----------------------------------------------------------------------------
(* The operator runs the same script again on the same input and output    *)
(* directory.                                                              *)

Rerun ==
    /\ run = 1 /\ pc \in {"done", "aborted"}
    /\ run' = 2
    /\ fs1' = fs
    /\ pc' = "start"
    /\ i' = 0
    /\ count' = 0
    /\ log' = <<>>
    /\ exit' = -1
    /\ writes' = <<>>
    /\ todo' = <<>>
    /\ codes' = <<>>
    /\ UNCHANGED <<entries, out, procs>>
    /\ UNCHANGED <<script, doc, denied, fs, dirMade>>

----------------------------------------------------------------------------
(* Inputs. *)

\* the dicts of at most n items with keys of K and values of V
Dicts(K, V, n) ==
    UNION {{d \in [1..m -> K \X V] : \A a, b \in 1..m : a # b => d[a][1] # d[b][1]}
           : m \in 0..n}

\* the lists of at most n elements of S
Lists(S, n) == UNION {[1..m -> S] : m \in 0..n}

InitRun ==
    /\ dirMade = FALSE
    /\ pc = "start"
    /\ i = 0
    /\ count = 0
    /\ log = <<>>
    /\ exit = -1
    /\ writes = <<>>
    /\ todo = <<>>
    /\ codes = <<>>
    /\ run = 1
    /\ entries = <<>>
    /\ out = PyNone
    /\ procs = <<>>

DeniedPool == {{}, {FileName(<<"A1">>)}, {FileName(<<"B2">>)}}

FsPool == {NoFiles} \cup
          {[n \in {f} |-> StaleContent] : f \in {FileName(<<"A1">>), FileName(<<"Z9">>)}}

InitEnv == denied \in DeniedPool /\ fs \in FsPool /\ fs1 = fs

CodePool == {<<"A1">>, <<"B2">>, <<"C3">>}

DetailsPool == {PyStr(<<"r1">>), PyNum("2")}

InitSplit ==
    /\ script = "split"
    /\ \/ doc \in {PyDict(d) : d \in Dicts(CodePool, DetailsPool, MaxRecs)}
       \/ doc = Malformed
       \/ doc = PyList(<<>>)

InitCci ==
    /\ script = "cci"
    /\ \/ doc \in {PyDict(<< <<cci_edits, PyDict(d)>> >>)
                   : d \in Dicts(CodePool, DetailsPool, MaxRecs)}
       \/ doc = Malformed
       \/ doc = PyList(<<>>)
       \/ doc = PyDict(<<>>)
       \/ doc = PyDict(<< <<cci_edits, PyList(<<>>)>> >>)

Desc == <<"Desc">>

RvuRecPool ==
    { PyDict(<< <<HCPCS, PyStr(<<Space, "A1", Space>>)>>,
                <<Desc, PyStr(<<Space, "widget", Space>>)>> >>),
      PyDict(<< <<HCPCS, PyStr(<<"A1">>)>>, <<Desc, PyNaN>> >>),
      PyDict(<< <<Desc, PyStr(<<"widget">>)>> >>),
      PyDict(<< <<HCPCS, PyNone>>, <<Desc, PyStr(<<"widget">>)>> >>),
      PyDict(<< <<HCPCS, PyStr(<<"B2">>)>> >>),
      PyDict(<< <<HCPCS, PyNum("7")>>, <<<<Space, "HCPCS">>, PyStr(<<"C3">>)>> >>),
      PyList(<<>>) }

InitRvu ==
    /\ script = "rvu"
    /\ \/ doc \in {PyList(l) : l \in Lists(RvuRecPool, MaxRecs)}
       \/ doc = Malformed
       \/ doc = PyDict(<<>>)

EntryPool ==
    { << <<name, PyStr(<<"A1">>)>>, <<desc, PyStr(<<"dA">>)>> >>,
      << <<name, PyStr(<<"B2">>)>>, <<desc, PyStr(<<"dB">>)>> >>,
      << <<name, PyStr(<<"C3">>)>> >> }

\* the diag entries of exactly n entries in all, and the lists of them
RECURSIVE Trees(_), Forests(_)
Trees(n) ==
    IF n = 1 THEN {PyDict(f) : f \in EntryPool}
    ELSE {PyDict(f \o << <<diag, PyList(kids)>> >>)
          : f \in EntryPool, kids \in Forests(n - 1)}
Forests(n) ==
    IF n = 0 THEN {<<>>}
    ELSE UNION {{<<t>> \o rest : t \in Trees(k), rest \in Forests(n - k)} : k \in 1..n}

Chapter(chapter_name, block_name, diagnoses) ==
    PyDict(<< <<name, PyStr(<<chapter_name>>)>>,
              <<section, PyList(<<PyDict(<< <<id, PyStr(<<block_name>>)>>,
                                            <<diag, PyList(diagnoses)>> >>)>>)>> >>)

IcdDoc(f1, f2) ==
    PyDict(<< <<tabular,
                PyDict(<< <<chapter,
                            PyList(<<Chapter("I", "b1", f1), Chapter("II", "b2", f2)>>)>>
                       >>)>> >>)

InitIcd ==
    /\ script = "icd"
    /\ \/ \E a \in 0..MaxEntries : \E b \in 0..(MaxEntries - a) :
             \E f1 \in Forests(a) : \E f2 \in Forests(b) : doc = IcdDoc(f1, f2)
       \/ doc = Malformed
       \/ doc = PyList(<<>>)
       \/ doc = PyDict(<<>>)
       \/ doc = PyDict(<< <<tabular, PyDict(<<>>)>> >>)

Init == InitRun /\ InitEnv /\ (InitSplit \/ InitCci \/ InitRvu \/ InitIcd)

Next == NextSplit \/ NextCci \/ NextRvu \/ NextIcd \/ Rerun

Spec == Init /\ [][Next]_vars

----------------------------------------------------------------------------
(* The list splitter on one record, its field names and values drawn from  *)
(* KeyPool and ValPool.                                                    *)

KeyPool == { HCPCS, <<Space, "HCPCS">>, Desc,
             <<"Mod", EnDash, "A">>, <<"Mod", Hyphen, "A">>, <<"Mod", EmDash, "A">> }

ValPool == { PyNaN, PyNone, PyNum("7"),
             PyStr(<<Space, "A1", EnDash, "000", Space>>),
             PyStr(<<Space, "widget", Space>>) }

InitRecord ==
    /\ InitRun
    /\ script = "rvu"
    /\ doc \in {PyList(<<PyDict(r)>>) : r \in Dicts(KeyPool, ValPool, MaxFields)}
    /\ denied \in {{}, {FileName(<<"A1", EnDash, "000">>)}}
    /\ fs = NoFiles
    /\ fs1 = NoFiles

SpecRecord == InitRecord /\ [][NextRvu]_vars

----------------------------------------------------------------------------
(* extract_hcpcs_codes.py on a directory of one file with a code and a     *)
(* description drawn from the strings over Alphabet, and other files.      *)

Alphabet == {"A", Space, "w"}

Strings(n) == UNION {[1..m -> Alphabet] : m \in 0..n}

GoodName == <<"A", Hyphen, "1", ".json">>

CodeFile(code, description) ==
    [fname |-> GoodName,
     data |-> PyDict(<< <<<<"code">>, PyStr(code)>>,
                        <<<<"description">>, PyStr(description)>> >>)]

OtherFiles ==
    { [fname |-> <<"notes.txt">>, data |-> Malformed],
      [fname |-> GoodName, data |-> Malformed],
      [fname |-> GoodName, data |-> PyDict(<< <<<<"code">>, PyStr(<<"A">>)>> >>)],
      [fname |-> GoodName, data |-> PyList(<<>>)],
      CodeFile(<<"B">>, <<"B", Space, "w">>) }

InitExtract ==
    /\ InitRun
    /\ script = "extract"
    /\ \E code \in {<<"A">>, <<"A", "w">>} : \E description \in Strings(MaxLen) :
         \E others \in Lists(OtherFiles, MaxRecs - 1) :
            \/ doc = <<CodeFile(code, description)>> \o others
            \/ doc = others \o <<CodeFile(code, description)>>
    /\ denied \in {{}, {output_md_file}}
    /\ fs = NoFiles
    /\ fs1 = NoFiles

SpecExtract == InitExtract /\ [][NextExtract]_vars

----------------------------------------------------------------------------
(* parseLogExecutionTime.py.  doc is what workflow_summary.log holds; a    *)
(* number is written with its digits, as in the file.                      *)

NoFile == [t |-> "absent", v |-> <<>>]

\* the value of a JSON number
Number(val) ==
    CASE val.v = <<"0">> -> 0
      [] val.v = <<"1">> -> 1
      [] val.v = <<"2">> -> 2
      [] val.v = <<"3">> -> 3
      [] val.v = <<"4">> -> 4
      [] OTHER -> 7

\* datetime.fromtimestamp(ts / 1000).isoformat(), for ts of 1000 .. 4000 ms
IsoFormat(ts) ==
    <<"1970-01-01T00:00:0",
      CASE ts.v = <<"1000">> -> "1"
        [] ts.v = <<"2000">> -> "2"
        [] ts.v = <<"3000">> -> "3"
        [] OTHER -> "4">>

\* lines 54-59
TsIso(ts) == IF ts.t = "num" THEN IsoFormat(ts) ELSE Str(ts)

\* lines 62-67
TraceEntryOf(trace) ==
    [timestamp |-> TsIso(Get(trace.v, <<"timestamp">>)),
     component |-> Get(trace.v, <<"component">>),
     stepId |-> GetDefault(trace.v, <<"stepId">>, PyStr(<<>>)),
     duration |-> Get(GetDefault(trace.v, <<"metadata">>, PyDict(<<>>)).v,
                      <<"executionTime">>)]

\* x[key] < y[key]
KeyLess(x, y, key) ==
    IF key = "timestamp" THEN Less(x.timestamp, y.timestamp)
    ELSE Number(x.duration) < Number(y.duration)

\* e put behind the elements of a sorted list that are not after it
RECURSIVE InsertBy(_, _, _, _)
InsertBy(sorted, e, key, reverse) ==
    IF sorted = <<>> THEN <<e>>
    ELSE IF (IF reverse THEN KeyLess(Head(sorted), e, key)
                        ELSE KeyLess(e, Head(sorted), key))
    THEN <<e>> \o sorted
    ELSE <<Head(sorted)>> \o InsertBy(Tail(sorted), e, key, reverse)

\* sorted(xs, key=lambda x: x[key], reverse=reverse): a stable sort
RECURSIVE SortedBy(_, _, _)
SortedBy(xs, key, reverse) ==
    IF xs = <<>> THEN <<>>
    ELSE InsertBy(SortedBy(SubSeq(xs, 1, Len(xs) - 1), key, reverse),
                  xs[Len(xs)], key, reverse)

\* line 75
by_dur(es) == SortedBy(es, "duration", FALSE)

\* line 73
chrono(es) == SortedBy(es, "timestamp", FALSE)

\* lines 77-83: what print_reports prints
Reports(es) ==
    <<<<"Chronological execution traces with durations:", 0>>>>
    \o [k \in 1..Len(es) |-> <<"chrono", chrono(es)[k]>>]
    \o <<<<"Top longest executions:", 0>>>>
    \o [k \in 1..Len(es) |-> <<"by_dur", by_dur(es)[k]>>]

\* lines 87-88 and 49: find_latest_dir, load_summary, summary.get
TracesLoad ==
    /\ script = "traces" /\ pc = "start"
    /\ IF doc = NoFile THEN Raise("Error: Summary file not found")
       ELSE IF doc.t = "malformed" THEN Raise("Error: JSONDecodeError")
       ELSE IF doc.t # "dict" THEN Raise("Error: AttributeError")
       ELSE pc' = "loop" /\ UNCHANGED <<exit, log>>
    /\ UNCHANGED <<script, doc, denied, fs, dirMade, i, count, writes, todo, codes,
                   run, fs1, entries, out, procs>>

\* the traces parse_traces walks
Traces == GetDefault(doc.v, <<"executionTrace">>, PyList(<<>>)).v

\* the test of line 52 turned round
HasNoTimeInverted(exec_time) == exec_time.t # "null"

\* exec_time is None (line 52)
HasNoTime(exec_time) == exec_time.t = "null"

\* one iteration of the loop of lines 49-67
TraceEntry ==
    /\ script = "traces" /\ pc = "loop" /\ i < Len(Traces)
    /\ LET trace == Traces[i + 1] IN
       IF trace.t # "dict"
       THEN Raise("Error: AttributeError") /\ UNCHANGED <<i, entries>>
       ELSE LET meta == GetDefault(trace.v, <<"metadata">>, PyDict(<<>>)) IN
            IF meta.t # "dict"
            THEN Raise("Error: AttributeError") /\ UNCHANGED <<i, entries>>
            ELSE /\ entries' = IF HasNoTime(Get(meta.v, <<"executionTime">>))
                               THEN entries
                               ELSE Append(entries, TraceEntryOf(trace))
                 /\ i' = i + 1
                 /\ UNCHANGED <<pc, exit, log>>
    /\ UNCHANGED <<script, doc, denied, fs, dirMade, count, writes, todo, codes,
                   run, fs1, out, procs>>

\* lines 89-93
TracesReport ==
    /\ script = "traces" /\ pc = "loop" /\ i = Len(Traces)
    /\ log' = IF entries = <<>>
              THEN Append(log, <<"No executionTime entries found in executionTrace.", 0>>)
              ELSE log \o Reports(entries)
    /\ pc' = "done"
    /\ exit' = 0
    /\ UNCHANGED <<script, doc, denied, fs, dirMade, i, count, writes, todo, codes,
                   run, fs1, entries, out, procs>>

NextTraces == TracesLoad \/ TraceEntry \/ TracesReport

MaxTraces == 3

TraceShapes == 1..10

Meta(exec_time) == <<<<"metadata">>, PyDict(<< <<<<"executionTime">>, exec_time>> >>)>>

\* a trace of the log, of shape n
TraceShape(n) ==
    CASE n = 1 -> PyDict(<< <<<<"timestamp">>, PyNum("1000")>>,
                            <<<<"component">>, PyStr(<<"a">>)>>,
                            <<<<"stepId">>, PyStr(<<"s1">>)>>, Meta(PyNum("3")) >>)
      [] n = 2 -> PyDict(<< <<<<"timestamp">>, PyNum("2000")>>,
                            <<<<"component">>, PyStr(<<"b">>)>>, Meta(PyNum("1")) >>)
      [] n = 3 -> PyDict(<< <<<<"timestamp">>, PyNum("3000")>>,
                            <<<<"component">>, PyStr(<<"c">>)>>,
                            <<<<"stepId">>, PyStr(<<"s3">>)>>, Meta(PyNum("2")) >>)
      [] n = 4 -> PyDict(<< <<<<"component">>, PyStr(<<"d">>)>>,
                            <<<<"stepId">>, PyStr(<<"s4">>)>>, Meta(PyNum("2")) >>)
      [] n = 5 -> PyDict(<< <<<<"timestamp">>, PyNum("1000")>>,
                            <<<<"component">>, PyStr(<<"e">>)>>,
                            <<<<"metadata">>, PyDict(<<>>)>> >>)
      [] n = 6 -> PyDict(<< <<<<"timestamp">>, PyNum("2000")>>,
                            <<<<"component">>, PyStr(<<"f">>)>>, Meta(PyNone) >>)
      [] n = 7 -> PyDict(<< <<<<"component">>, PyStr(<<"g">>)>> >>)
      [] n = 8 -> PyDict(<< <<<<"timestamp">>, PyStr(<<"soon">>)>>,
                            <<<<"component">>, PyStr(<<"h">>)>>, Meta(PyNum("1")) >>)
      [] n = 9 -> PyDict(<< <<<<"component">>, PyStr(<<"k">>)>>,
                            <<<<"metadata">>, PyNone>> >>)
      [] OTHER -> PyStr(<<"trace">>)

InitTraces ==
    /\ InitRun
    /\ script = "traces"
    /\ \/ \E m \in 0..MaxTraces : \E shapes \in [1..m -> TraceShapes] :
             doc = PyDict(<< <<<<"executionTrace">>,
                               PyList([k \in 1..m |-> TraceShape(shapes[k])])>> >>)
       \/ doc = PyDict(<<>>)
       \/ doc = PyList(<<>>)
       \/ doc = Malformed
       \/ doc = NoFile
    /\ denied = {}
    /\ fs = NoFiles
    /\ fs1 = NoFiles

SpecTraces == InitTraces /\ [][NextTraces]_vars

----------------------------------------------------------------------------
(* azure_rag.py: search.  doc is what client.search yields: the list of    *)
(* results, or the HttpResponseError it raises.                            *)

text_vector == <<"text_vector">>
parent_id == <<"parent_id">>

\* a result that is not a dict and has the attribute document
WithDocument(document) == [t |-> "object", v |-> <<document>>]

\* a result that is not a dict and has items()
MappingOf(items) == [t |-> "mapping", v |-> items]

HttpResponseError == [t |-> "HttpResponseError", v |-> <<>>]

\* lines 40-43 left out: a list or a tuple is returned as it is
_remove_key_shallow(obj, target) ==
    IF obj.t = "dict"
    THEN PyDict(SelectSeq(obj.v, LAMBDA item : item[1] # target))
    ELSE obj

\* lines 35-44
RECURSIVE _remove_key_recursive(_, _)
_remove_key_recursive(obj, target) ==
    IF obj.t = "null" THEN PyNone
    ELSE IF obj.t = "dict"
    THEN LET kept == SelectSeq(obj.v, LAMBDA item : item[1] # target) IN
         PyDict([k \in 1..Len(kept) |->
                    <<kept[k][1], _remove_key_recursive(kept[k][2], target)>>])
    ELSE IF obj.t \in {"list", "tuple"}
    THEN [t |-> obj.t,
          v |-> [k \in 1..Len(obj.v) |-> _remove_key_recursive(obj.v[k], target)]]
    ELSE obj

\* lines 46-61
_unwrap_search_result(r) ==
    IF r.t = "null" THEN PyNone
    ELSE IF r.t = "dict" THEN _remove_key_recursive(r, text_vector)
    ELSE IF r.t = "object" THEN _remove_key_recursive(r.v[1], text_vector)
    ELSE IF r.t = "mapping" THEN _remove_key_recursive(PyDict(r.v), text_vector)
    ELSE r

\* lines 74-81: the parent_id of the documents, as strings, each once
RECURSIVE ParentIds(_, _)
ParentIds(docs, parent_ids) ==
    IF docs = <<>> THEN parent_ids
    ELSE LET d == Head(docs)
             pid == IF d.t = "dict" THEN Get(d.v, parent_id) ELSE PyNone
             seen == {parent_ids[k] : k \in 1..Len(parent_ids)}
         IN  ParentIds(Tail(docs),
                       IF pid.t # "null" /\ Str(pid) \notin seen
                       THEN Append(parent_ids, Str(pid)) ELSE parent_ids)

QUERY == <<"modifier 80, assistant surgeon, surgery">>

\* lines 63-96: search(QUERY, top=10); get_count() gives approx_count or raises
Search ==
    /\ script = "search" /\ pc = "start"
    /\ IF doc = HttpResponseError
       THEN Raise("error") /\ UNCHANGED out
       ELSE \E approx_count \in {PyNone, PyNum("7")} :
            LET docs == [k \in 1..Len(doc.v) |-> _unwrap_search_result(doc.v[k])]
                parent_ids == ParentIds(docs, <<>>)
            IN  /\ out' = PyDict(<< <<<<"query">>, PyStr(QUERY)>>,
                                    <<<<"approx_total_count">>, approx_count>>,
                                    <<<<"parent_ids">>,
                                      PyList([k \in 1..Len(parent_ids) |->
                                                 PyStr(parent_ids[k])])>>,
                                    <<<<"results">>, PyList(docs)>> >>)
                /\ log' = log \o << <<IF parent_ids # <<>> THEN "parent_ids:"
                                      ELSE "parent_ids: (none)", Len(parent_ids)>>,
                                    <<"out", Len(docs)>> >>
                /\ pc' = "done"
                /\ exit' = 0
    /\ UNCHANGED <<script, doc, denied, fs, dirMade, i, count, writes, todo, codes,
                   run, fs1, entries, procs>>

MaxNodes == 4

SearchKeys == {text_vector, parent_id}

SearchLeaves == {PyNone, PyStr(<<"x">>)}

\* the values of exactly n nodes, and the dicts among them
RECURSIVE SearchValues(_), SearchDicts(_)
SearchValues(n) ==
    IF n = 1 THEN SearchLeaves
    ELSE SearchDicts(n)
         \cup {[t |-> tag, v |-> <<val>>] : tag \in {"list", "tuple"},
                                           val \in SearchValues(n - 1)}
         \cup UNION {{PyList(<<a, b>>) : a \in SearchValues(m),
                                         b \in SearchValues(n - 1 - m)}
                     : m \in 1..(n - 2)}
SearchDicts(n) ==
    {PyDict(<< <<key, val>> >>) : key \in SearchKeys, val \in SearchValues(n - 1)}
    \cup UNION {{PyDict(<< <<keys[1], a>>, <<keys[2], b>> >>)
                    : keys \in {p \in SearchKeys \X SearchKeys : p[1] # p[2]},
                      a \in SearchValues(m), b \in SearchValues(n - 1 - m)}
                : m \in 1..(n - 2)}

\* results around the one drawn from SearchDicts
OtherResults ==
    { PyNone,
      PyDict(<< <<parent_id, PyStr(<<"x">>)>> >>),
      PyDict(<< <<<<"chunk">>, PyStr(<<"c">>)>>, <<text_vector, PyList(<<>>)>> >>) }

InitSearch ==
    /\ InitRun
    /\ script = "search"
    /\ \/ \E n \in 2..MaxNodes : \E d \in SearchDicts(n) :
          \E others \in Lists(OtherResults, MaxRecs - 1) :
             \E r \in {d, WithDocument(d), MappingOf(d.v)} :
                \/ doc = PyList(<<r>> \o others)
                \/ doc = PyList(others \o <<r>>)
       \/ doc = HttpResponseError
    /\ denied = {}
    /\ fs = NoFiles
    /\ fs1 = NoFiles

SpecSearch == InitSearch /\ [][Search]_vars

----------------------------------------------------------------------------
(* Two runs of one splitter (split_json_records.py or                      *)
(* parse_big_rvu_file.py) on the same output directory, each with its own  *)
(* input.  procs[p] is the state of run p.  A file is written in two       *)
(* steps, as the operating system sees them: open(out_path, "w") empties   *)
(* the file; the text json.dump has put in the buffer is written at the    *)
(* start of the file when the with block closes it.                        *)

\* the number of characters of an atom
AtomLen(a) ==
    CASE a \in {"A1", "B2", "C3", "r1", "s1"} -> 2
      [] a = "Desc" -> 4
      [] a \in {"HCPCS", "stale"} -> 5
      [] a = "widget" -> 6
      [] OTHER -> 1

RECURSIVE StrLen(_)
StrLen(str) == IF str = <<>> THEN 0 ELSE AtomLen(Head(str)) + StrLen(Tail(str))

\* the length of what json.dump writes for a string, a number or null
ScalarSize(val) ==
    CASE val.t = "str" -> StrLen(val.v) + 2
      [] val.t = "num" -> StrLen(val.v)
      [] OTHER -> 4

\* the length of what json.dump(items, indent=2) writes for a dict of
\* scalars: "{", a line of two spaces, key, ": " and value for each item,
\* "," between the lines, a line with "}"
RECURSIVE ItemsSize(_)
ItemsSize(items) ==
    IF items = <<>> THEN 0
    ELSE 3 + (StrLen(Head(items)[1]) + 2) + 2 + ScalarSize(Head(items)[2])
         + (IF Len(items) > 1 THEN 1 ELSE 0) + ItemsSize(Tail(items))

\* the length of the text json.dump writes
JsonSize(val) ==
    IF val.t = "dict"
    THEN IF val.v = <<>> THEN 2 ELSE 1 + ItemsSize(val.v) + 2
    ELSE ScalarSize(val)

EmptyFile == [t |-> "empty", v |-> <<>>]

\* a file that holds the text of head and, behind it, the end of what it
\* held before; size is its length
Torn(head, size) == [t |-> "torn", v |-> <<head>>, size |-> size]

FileSize(file) ==
    CASE file.t = "empty" -> 0
      [] file.t = "torn" -> file.size
      [] OTHER -> JsonSize(file)

\* the text of content written at the start of a file
Overlay(file, content) ==
    IF JsonSize(content) >= FileSize(file) THEN content
    ELSE Torn(content, FileSize(file))

\* the k-th item of the input of run p: its code and the record to write,
\* or no code
RaceItemAt(p, k) ==
    LET item == procs[p].data.v[k] IN
    IF script = "split" THEN [coded |-> TRUE, code |-> item[1], record |-> item[2]]
    ELSE LET raw_code == Get(item.v, HCPCS) IN
         IF IsNone(raw_code) THEN [coded |-> FALSE, code |-> <<>>, record |-> PyNone]
         ELSE [coded |-> TRUE, code |-> RvuCode(raw_code),
               record |-> PyDict(Cleaned(item, RvuCode(raw_code)))]

\* the item run p is at
RaceItem(p) == RaceItemAt(p, procs[p].i + 1)

AtItem(p) == procs[p].pc = "loop" /\ procs[p].i < Len(procs[p].data.v)

\* run p has the file open
HasOpen(p, fname) == procs[p].pc = "open" /\ FileName(RaceItem(p).code) = fname

RaceUnchanged ==
    UNCHANGED <<script, doc, denied, pc, i, count, log, exit, todo, codes, run,
                fs1, entries, out>>

\* split_json_records.py lines 12-17, parse_big_rvu_file.py lines 40-49
RaceLoad(p) ==
    /\ procs[p].pc = "start"
    /\ procs' = [procs EXCEPT ![p].pc = "loop"]
    /\ dirMade' = TRUE
    /\ UNCHANGED <<fs, writes>>
    /\ RaceUnchanged

\* parse_big_rvu_file.py lines 52-54
RaceSkip(p) ==
    /\ AtItem(p) /\ ~RaceItem(p).coded
    /\ procs' = [procs EXCEPT ![p].i = @ + 1,
                              ![p].log = Append(@, <<"Skipping record without HCPCS",
                                                     procs[p].i + 1>>)]
    /\ UNCHANGED <<fs, writes, dirMade>>
    /\ RaceUnchanged

\* the runs after run p has opened or written fname: alone tells whether
\* no other run has touched the file a run holds open since it opened it
Touched(p, fname, mine) ==
    [q \in 1..2 |->
        IF q = p THEN mine
        ELSE IF HasOpen(q, fname) THEN [procs[q] EXCEPT !.alone = FALSE]
        ELSE procs[q]]

\* open(out_path, "r+"), on a file that exists: what it holds stays
RaceOpenKeeping(p) ==
    /\ AtItem(p) /\ RaceItem(p).coded
    /\ LET out_path == FileName(RaceItem(p).code) IN
       /\ fs' = IF out_path \in DOMAIN fs THEN fs
                ELSE WriteFile(fs, out_path, EmptyFile)
       /\ procs' = Touched(p, out_path,
                           [procs[p] EXCEPT !.pc = "open", !.alone = TRUE])
    /\ UNCHANGED <<writes, dirMade>>
    /\ RaceUnchanged

\* open(out_path, "w"): split_json_records.py line 21,
\* parse_big_rvu_file.py line 66
RaceOpen(p) ==
    /\ AtItem(p) /\ RaceItem(p).coded
    /\ LET out_path == FileName(RaceItem(p).code) IN
       /\ fs' = WriteFile(fs, out_path, EmptyFile)
       /\ procs' = Touched(p, out_path,
                           [procs[p] EXCEPT !.pc = "open", !.alone = TRUE])
    /\ UNCHANGED <<writes, dirMade>>
    /\ RaceUnchanged

\* json.dump and the end of the with block: split_json_records.py line 22,
\* parse_big_rvu_file.py lines 67-69.  writes keeps the last write of each
\* file, the latest at the end
RaceDump(p) ==
    /\ procs[p].pc = "open"
    /\ LET out_path == FileName(RaceItem(p).code) IN
       /\ fs' = WriteFile(fs, out_path, Overlay(fs[out_path], RaceItem(p).record))
       /\ writes' = Append(SelectSeq(writes, LAMBDA w : w.name # out_path),
                           [name |-> out_path, src |-> p, item |-> procs[p].i + 1,
                            alone |-> procs[p].alone])
       /\ procs' = Touched(p, out_path,
                           [procs[p] EXCEPT !.pc = "loop", !.i = @ + 1,
                                            !.count = @ + 1])
    /\ UNCHANGED dirMade
    /\ RaceUnchanged

\* split_json_records.py line 24, parse_big_rvu_file.py line 71
RaceDone(p) ==
    /\ procs[p].pc = "loop" /\ procs[p].i = Len(procs[p].data.v)
    /\ procs' = [procs EXCEPT ![p].pc = "done",
                              ![p].log = Append(@, <<"Processed", procs[p].count>>)]
    /\ UNCHANGED <<fs, writes, dirMade>>
    /\ RaceUnchanged

NextRace ==
    \E p \in 1..2 :
       RaceLoad(p) \/ RaceSkip(p) \/ RaceOpen(p) \/ RaceDump(p) \/ RaceDone(p)

\* a run about to start on data
NewRun(data) ==
    [data |-> data, pc |-> "start", i |-> 0, count |-> 0, log |-> <<>>, alone |-> TRUE]

RaceCodes == {<<"A1">>, <<"B2">>}

RaceDetails == {PyStr(<<"r1">>), PyStr(<<"s1">>), PyNum("2")}

RaceRecords ==
    { PyDict(<< <<HCPCS, PyStr(<<"A1">>)>>, <<Desc, PyStr(<<"widget">>)>> >>),
      PyDict(<< <<HCPCS, PyStr(<<"A1">>)>> >>),
      PyDict(<< <<Desc, PyStr(<<"widget">>)>> >>) }

InitRace ==
    /\ dirMade = FALSE
    /\ pc = "start" /\ i = 0 /\ count = 0 /\ log = <<>> /\ exit = -1
    /\ writes = <<>> /\ todo = <<>> /\ codes = <<>> /\ run = 1
    /\ entries = <<>> /\ out = PyNone
    /\ doc = PyNone
    /\ denied = {}
    /\ fs \in {NoFiles, [n \in {FileName(<<"A1">>)} |-> StaleContent]}
    /\ fs1 = fs
    /\ \/ /\ script = "split"
          /\ \E d1, d2 \in Dicts(RaceCodes, RaceDetails, MaxRecs) :
                procs = <<NewRun(PyDict(d1)), NewRun(PyDict(d2))>>
       \/ /\ script = "rvu"
          /\ \E l1, l2 \in Lists(RaceRecords, MaxRecs) :
                procs = <<NewRun(PyList(l1)), NewRun(PyList(l2))>>

SpecRace == InitRace /\ [][NextRace]_vars

----------------------------------------------------------------------------
(* The nested-tree splitter on one entry with a name, a desc and note-like *)
(* fields, each in one of the shapes the code tells apart.                 *)

NoteKeys == {"inclusionTerm", "excludes1", "notes", "useAdditionalCode",
             "codeAlso", "sevenChrDef"}

NoteShapes == 1..7

\* a note-like value of shape n holding the notes x and y
NoteShape(n, x, y) ==
    CASE n = 1 -> PyStr(<<x>>)
      [] n = 2 -> PyDict(<< <<note, PyStr(<<x>>)>> >>)
      [] n = 3 -> PyDict(<< <<note, PyList(<<PyStr(<<x>>), PyStr(<<y>>)>>)>> >>)
      [] n = 4 -> PyList(<<PyDict(<< <<note, PyStr(<<x>>)>> >>),
                           PyDict(<< <<note, PyStr(<<y>>)>> >>)>>)
      [] n = 5 -> PyList(<<PyStr(<<x>>), PyStr(<<y>>)>>)
      [] n = 6 -> PyDict(<< <<note, PyDict(<< <<note, PyStr(<<x>>)>> >>)>> >>)
      [] OTHER -> PyDict(<< <<note, PyList(<<PyDict(<< <<note, PyStr(<<x>>)>> >>),
                                            PyStr(<<y>>)>>)>> >>)

\* the entry with the note-like fields picks[1], picks[2], ... in this order;
\* the notes of the k-th field are "k1" and "k2"
NotedEntry(picks) ==
    PyDict(<< <<name, PyStr(<<"A1">>)>>, <<desc, PyStr(<<"dA">>)>> >>
           \o [k \in 1..Len(picks) |->
                 << <<picks[k][1]>>,
                    NoteShape(picks[k][2], <<"x", "y", "z", "w">>[k],
                                           <<"x2", "y2", "z2", "w2">>[k]) >>])

InitNotes ==
    /\ InitRun
    /\ script = "icd"
    /\ \E m \in 0..MaxFields : \E picks \in [1..m -> NoteKeys \X NoteShapes] :
          /\ \A a, b \in 1..m : a # b => picks[a][1] # picks[b][1]
          /\ doc = IcdDoc(<<NotedEntry(picks)>>, <<>>)
    /\ denied = {}
    /\ fs = NoFiles
    /\ fs1 = NoFiles

SpecNotes == InitNotes /\ [][NextIcd]_vars

----------------------------------------------------------------------------
(* The list splitter on one record of up to MaxFields + 1 fields whose     *)
(* names normalize to HCPCS or to Mod-A.                                   *)

InitFields ==
    LET names == { HCPCS, <<Space, "HCPCS">>,
                   <<"Mod", EnDash, "A">>, <<"Mod", Hyphen, "A">>,
                   <<Space, "Mod", Hyphen, "A", Space>> }
        values == { PyStr(<<Space, "A1", Space>>), PyStr(<<"B2">>), PyNum("7"), PyNaN }
    IN  /\ InitRun
        /\ script = "rvu"
        /\ doc \in {PyList(<<PyDict(r)>>) : r \in Dicts(names, values, MaxFields + 1)}
        /\ denied = {}
        /\ fs = NoFiles
        /\ fs1 = NoFiles

SpecFields == InitFields /\ [][NextRvu]_vars

----------------------------------------------------------------------------
(* The nested-tree splitter alone, on every tree of up to MaxEntries diag   *)
(* entries and with an output file that cannot be written.                 *)

InitTree ==
    /\ InitRun
    /\ InitIcd
    /\ denied \in DeniedPool
    /\ fs = NoFiles
    /\ fs1 = NoFiles

SpecTree == InitTree /\ [][NextIcd]_vars

----------------------------------------------------------------------------
(* Claims. *)

LogKinds == {log[k][1] : k \in 1..Len(log)}

WrittenNames == {writes[k].name : k \in 1..Len(writes)}

\* the mapping a flat-mapping splitter walks
FlatItems == IF script = "cci" THEN Get(doc.v, cci_edits).v ELSE doc.v

\* C1: when a flat-mapping splitter (split_json_records.py or
\* parse_cci_practitioner.py) has ended normally on a mapping of N distinct
\* codes and no write failed, it has written exactly N files, one named
\* <code>.json per key, and each file holds the record the input maps that
\* code to.
C1_FlatOneFilePerCode ==
    (script \in {"split", "cci"} /\ pc = "done"
        /\ "Warning: Could not write" \notin LogKinds)
    => /\ Len(writes) = Len(FlatItems)
       /\ Cardinality(WrittenNames) = Len(FlatItems)
       /\ WrittenNames = {FlatItems[k][1] \o <<".json">> : k \in 1..Len(FlatItems)}
       /\ \A k \in 1..Len(FlatItems) :
            LET f == FlatItems[k][1] \o <<".json">> IN
            f \in DOMAIN fs /\ fs[f] = FlatItems[k][2]

C1_Witness ==
    /\ script = "split" /\ pc = "done" /\ run = 1
    /\ Len(doc.v) = 2
    /\ <<"Z9", ".json">> \in DOMAIN fs

\* the entries of a list input that have no HCPCS (absent, or null)
MissingHCPCS ==
    {k \in 1..Len(doc.v) :
        ~\E j \in 1..Len(doc.v[k].v) :
            doc.v[k].v[j][1] = <<"HCPCS">> /\ doc.v[k].v[j][2].t # "null"}

SkipMessages == {k \in 1..Len(log) : log[k][1] = "Skipping record without HCPCS"}

\* C2: when the list splitter has ended normally on a list of N entries,
\* each entry without HCPCS was reported as skipped (once) and has no
\* output file, every other entry was written, and the count printed at the
\* end is N minus the number of skipped entries.
C2_ProcessedIsTotalMinusSkipped ==
    (script = "rvu" /\ pc = "done")
    => /\ {log[k][2] : k \in SkipMessages} = MissingHCPCS
       /\ Cardinality(SkipMessages) = Cardinality(MissingHCPCS)
       /\ {writes[k].src : k \in 1..Len(writes)} = (1..Len(doc.v)) \ MissingHCPCS
       /\ Len(writes) = Len(doc.v) - Cardinality(MissingHCPCS)
       /\ count = Len(doc.v) - Cardinality(MissingHCPCS)
       /\ log[Len(log)] = <<"Processed", Len(doc.v) - Cardinality(MissingHCPCS)>>

C2_Witness ==
    /\ script = "rvu" /\ pc = "done"
    /\ Len(doc.v) = 2 /\ MissingHCPCS = {1}
    /\ count = 1

\* the diag entries below a list of entries, depth first, each with the
\* chapter and the section it is under
RECURSIVE WalkEntries(_, _, _)
WalkEntries(diagnoses, ch, bl) ==
    IF diagnoses = <<>> THEN <<>>
    ELSE LET e == Head(diagnoses) IN
         <<[entry |-> e, chapter |-> ch, block |-> bl]>>
         \o (IF e.t = "dict" /\ HasKey(e.v, diag)
             THEN WalkEntries(Get(e.v, diag).v, ch, bl) ELSE <<>>)
         \o WalkEntries(Tail(diagnoses), ch, bl)

\* the diag entries of a nested-tree document, in document order
Walk ==
    LET chapters == Get(Get(doc.v, tabular).v, chapter).v IN
    Concat([c \in 1..Len(chapters) |->
        LET sections == Get(chapters[c].v, section).v IN
        Concat([k \in 1..Len(sections) |->
                  WalkEntries(Get(sections[k].v, diag).v,
                              Get(chapters[c].v, name), Get(sections[k].v, id))])])

HasTree == doc.t = "dict" /\ Get(doc.v, tabular).t = "dict"
           /\ Get(Get(doc.v, tabular).v, chapter).t = "list"

NonEmptyStr(val) == val.t = "str" /\ val.v # <<>>

\* C3: in the nested-tree splitter every record written for an entry under
\* chapter C and section B, at any depth, has chapter C and block B; and
\* when the run has ended normally every entry with a name and a desc,
\* childless or not and at any depth, has been written to <name>.json.
C3_ContextAndDescendants ==
    (script = "icd" /\ HasTree)
    => LET walk == Walk IN
       /\ \A k \in 1..Len(writes) :
            /\ writes[k].src \in 1..Len(walk)
            /\ Get(writes[k].content.v, <<"chapter">>) = walk[writes[k].src].chapter
            /\ Get(writes[k].content.v, <<"block">>) = walk[writes[k].src].block
            /\ Get(writes[k].content.v, <<"code">>)
                  = Get(walk[writes[k].src].entry.v, name)
       /\ pc = "done" =>
            \A n \in 1..Len(walk) :
               LET e == walk[n].entry IN
               (NonEmptyStr(Get(e.v, name)) /\ NonEmptyStr(Get(e.v, desc)))
               => \E k \in 1..Len(writes) :
                     /\ writes[k].src = n
                     /\ writes[k].name = Get(e.v, name).v \o <<".json">>
                     /\ writes[k].name \in DOMAIN fs

\* a qualifying entry of chapter II with a qualifying child, both written
C3_Witness ==
    /\ script = "icd" /\ HasTree /\ pc = "done"
    /\ LET walk == Walk IN
       \E n \in 1..Len(walk) : \E k \in 1..Len(writes) :
          /\ walk[n].chapter = PyStr(<<"II">>)
          /\ HasKey(walk[n].entry.v, diag)
          /\ writes[k].src = n
          /\ k < Len(writes) /\ writes[k + 1].src = n + 1
          /\ Get(writes[k + 1].content.v, <<"block">>) = PyStr(<<"b2">>)

\* C4: a second run on the same input and the same output directory leaves
\* the directory as the first run left it: the same files with the same
\* contents.
C4_RerunIdempotent ==
    (run = 2 /\ pc \in {"done", "aborted"}) => fs = fs1

C4_Witness ==
    /\ run = 2 /\ pc = "done" /\ Len(writes) = 2
    /\ <<"Z9", ".json">> \in DOMAIN fs

\* the record of SpecRecord, and the one file it is written to
TheRecord == doc.v[1].v

ExampleCode == PyStr(<<Space, "A1", EnDash, "000", Space>>)

\* C5 as claimed: the record {"HCPCS": " A1<en-dash>000 ", "Desc": " widget "}
\* yields the one file A1-000.json holding HCPCS "A1-000" and Desc "widget".
C5_DashNormalizedCode ==
    (pc = "done" /\ TheRecord = << <<HCPCS, ExampleCode>>,
                                  <<Desc, PyStr(<<Space, "widget", Space>>)>> >>)
    => fs = [n \in {<<"A1", Hyphen, "000", ".json">>} |->
                PyDict(<< <<HCPCS, PyStr(<<"A1", Hyphen, "000">>)>>,
                          <<Desc, PyStr(<<"widget">>)>> >>)]

\* C5, amended: a record whose HCPCS is " A1<en-dash>000 " yields exactly one
\* file, named with the trimmed code in which the en-dash is kept
\* (A1<en-dash>000.json), holding that same trimmed code as HCPCS and, when
\* its Desc is " widget ", Desc "widget".
C5_TrimmedCodeKeepsDash ==
    (script = "rvu" /\ Len(doc.v) = 1 /\ pc = "done"
        /\ Get(TheRecord, HCPCS) = ExampleCode)
    => /\ Len(writes) = 1
       /\ DOMAIN fs = {<<"A1", EnDash, "000", ".json">>}
       /\ LET written == fs[<<"A1", EnDash, "000", ".json">>].v IN
          /\ Get(written, HCPCS) = PyStr(<<"A1", EnDash, "000">>)
          /\ Get(TheRecord, Desc) = PyStr(<<Space, "widget", Space>>)
                => Get(written, Desc) = PyStr(<<"widget">>)
          /\ TheRecord = << <<HCPCS, ExampleCode>>,
                            <<Desc, PyStr(<<Space, "widget", Space>>)>> >>
                => written = << <<HCPCS, PyStr(<<"A1", EnDash, "000">>)>>,
                            <<Desc, PyStr(<<"widget">>)>> >>

C5_Witness ==
    /\ script = "rvu" /\ pc = "done"
    /\ TheRecord = << <<HCPCS, ExampleCode>>,
                      <<Desc, PyStr(<<Space, "widget", Space>>)>> >>
    /\ Len(writes) = 1

\* C6 as claimed: in every record the list splitter writes, every field of
\* the input record appears under its normalized name, with null when its
\* value was NaN, trimmed when it was a string, unchanged otherwise.
C6_NaNWrittenAsNull ==
    script = "rvu" =>
    \A k \in 1..Len(writes) :
       LET rec == doc.v[writes[k].src].v
           written == writes[k].content.v
       IN  \A j \in 1..Len(rec) :
              LET new_k == Strip(Replace(rec[j][1], EnDash, Hyphen))
                  val == rec[j][2]
              IN  /\ HasKey(written, new_k)
                  /\ Get(written, new_k).t # "NaN"
                  /\ val.t = "NaN" => Get(written, new_k) = PyNone
                  /\ val.t = "str" => Get(written, new_k) = PyStr(Strip(val.v))
                  /\ val.t \notin {"NaN", "str"} => Get(written, new_k) = val

\* the file extract_hcpcs_codes.py has just read
LastFile == doc[i]

GoodFile(file) ==
    /\ file.fname = <<"A", Hyphen, "1", ".json">>
    /\ file.data.t = "dict"
    /\ HasKey(file.data.v, <<"code">>) /\ HasKey(file.data.v, <<"description">>)

BeginsWith(s, p) == Len(s) >= Len(p) /\ \A k \in 1..Len(p) : s[k] = p[k]

\* C7: when a file's description begins with its code followed by a space,
\* the line made for it holds the description without that prefix (what is
\* left, trimmed); when the description does not begin with the code, the
\* line holds the description as it is.
C7_CodePrefixStripped ==
    (script = "extract" /\ pc = "start" /\ i >= 1 /\ GoodFile(LastFile))
    => LET code_ == Get(LastFile.data.v, <<"code">>).v
           description_ == Get(LastFile.data.v, <<"description">>).v
           rest == SubSeq(description_, Len(code_) + 2, Len(description_))
       IN  /\ codes # <<>>
           /\ BeginsWith(description_, code_ \o <<Space>>)
                 => codes[Len(codes)] = code_ \o <<":", Space>> \o Strip(rest)
           /\ ~BeginsWith(description_, code_)
                 => codes[Len(codes)] = code_ \o <<":", Space>> \o description_

C7_Witness ==
    /\ script = "extract" /\ pc = "start" /\ i >= 1
    /\ LastFile = CodeFile(<<"A">>, <<"A", Space, "w">>)
    /\ codes[Len(codes)] = <<"A", ":", Space, "w">>

\* C8 as claimed: no run ends on a failed write (the failure is reported and
\* the loop goes on), and when a flat-mapping splitter has ended every
\* record whose file can be written has been written.
C8_WriteFailureDoesNotAbort ==
    /\ pc = "aborted" => log[Len(log)][1] # "OSError"
    /\ (script \in {"split", "cci"} /\ pc \in {"done", "aborted"} /\ doc.t = "dict")
       => \A k \in 1..Len(FlatItems) :
             LET f == FlatItems[k][1] \o <<".json">> IN
             f \notin denied => f \in WrittenNames

\* C9: on an input that does not parse, every splitter ends with a
\* diagnostic and exit status 1 before the first record: it never enters
\* its loop, writes no file, and leaves the output directory as it was.
C9_MalformedAbortsBeforeRecords ==
    doc = Malformed
    => /\ pc \in {"start", "aborted"}
       /\ i = 0 /\ writes = <<>> /\ fs = fs1
       /\ pc = "aborted"
             => /\ exit = 1
                /\ Len(log) >= 1
                /\ log[Len(log)][1] \in {"JSONDecodeError", "Error: Failed to parse JSON"}

C9_Witness ==
    /\ doc = Malformed /\ script = "rvu" /\ pc = "aborted"
    /\ exit = 1 /\ fs # NoFiles

\* the parsed document is not of the shape the script expects
WrongShape ==
    /\ doc.t # "malformed"
    /\ CASE script = "rvu" -> doc.t # "list"
         [] script = "split" -> doc.t # "dict"
         [] script = "cci" -> doc.t # "dict" \/ Get(doc.v, cci_edits).t # "dict"
         [] script = "icd" -> ~HasTree
         [] OTHER -> FALSE

\* C10 as claimed: on a document of the wrong shape a splitter ends with a
\* diagnostic and exit status 1, never normally, and writes no file.
C10_WrongShapeAborts ==
    WrongShape
    => /\ pc # "done"
       /\ writes = <<>>
       /\ pc = "aborted" => (exit = 1 /\ log # <<>>)

\* the messages of the run about the item or call number n
MessagesAbout(n) == {k \in 1..Len(log) : log[k][2] = n /\ log[k][1] # "Processed"}

\* C11 as claimed: a record without its code or description (list splitter:
\* no HCPCS; nested-tree splitter: no name or no desc) is skipped: no file
\* is written for it, the run does not end on it, and a message about it is
\* printed.
C11_SkipsAreReported ==
    /\ (script = "rvu" /\ doc.t = "list")
       => \A n \in 1..i :
             n \in MissingHCPCS
             => /\ \A k \in 1..Len(writes) : writes[k].src # n
                /\ \E k \in MessagesAbout(n) :
                      log[k][1] = "Skipping record without HCPCS"
    /\ (script = "icd" /\ HasTree)
       => LET walk == Walk IN
          \A n \in 1..i :
             (walk[n].entry.t = "dict" /\ ~Qualifies(walk[n].entry))
             => /\ \A k \in 1..Len(writes) : writes[k].src # n
                /\ pc = "aborted" => log[Len(log)][2] # n
                /\ MessagesAbout(n) # {}

\* the field names of the k-th written record
WrittenKeys(k) ==
    {writes[k].content.v[j][1] : j \in 1..Len(writes[k].content.v)}

Contains(s, a) == \E k \in 1..Len(s) : s[k] = a

Untrimmed(s) == s # <<>> /\ (s[1] = Space \/ s[Len(s)] = Space)

RECURSIVE ForestSize(_)
ForestSize(diagnoses) ==
    IF diagnoses = <<>> THEN 0
    ELSE LET e == Head(diagnoses) IN
         1 + (IF e.t = "dict" /\ HasKey(e.v, diag)
              THEN ForestSize(Get(e.v, diag).v) ELSE 0)
           + ForestSize(Tail(diagnoses))

\* the places in the walk of the entries below the entry at place n
Descendants(walk, n) == (n + 1)..(n + ForestSize(<<walk[n].entry>>) - 1)

\* the entry at place n is a dict without a name or without a desc
Unqualified(walk, n) == walk[n].entry.t = "dict" /\ ~Qualifies(walk[n].entry)

\* C13: when the nested-tree splitter has ended normally, every entry with
\* a name and a desc that lies, at any depth, below an entry without a name
\* or without a desc has been written to <name>.json, with its own name as
\* code and its own desc as description.
C13_ChildrenOfSkippedEntriesWritten ==
    (script = "icd" /\ HasTree /\ pc = "done")
    => LET walk == Walk IN
       \A n \in 1..Len(walk) :
          Unqualified(walk, n)
          => \A m \in Descendants(walk, n) :
                LET e == walk[m].entry IN
                (NonEmptyStr(Get(e.v, name)) /\ NonEmptyStr(Get(e.v, desc)))
                => /\ Get(e.v, name).v \o <<".json">> \in DOMAIN fs
                   /\ \E k \in 1..Len(writes) :
                         /\ writes[k].name = Get(e.v, name).v \o <<".json">>
                         /\ Get(writes[k].content.v, <<"code">>) = Get(e.v, name)
                         /\ Get(writes[k].content.v, <<"description">>)
                               = Get(e.v, desc)

\* an entry without desc over an entry without desc over a record, written
C13_Witness ==
    /\ script = "icd" /\ HasTree /\ pc = "done"
    /\ LET walk == Walk IN
       /\ Len(walk) = 3
       /\ Unqualified(walk, 1) /\ Unqualified(walk, 2)
       /\ Descendants(walk, 1) = {2, 3}
       /\ Get(walk[3].entry.v, name) = PyStr(<<"B2">>)
       /\ Len(writes) = 1 /\ writes[1].name = <<"B2", ".json">>

ListOfStrings(val) ==
    val.t = "list" /\ \A k \in 1..Len(val.v) : val.v[k].t = "str"

\* C14 as claimed: in every record the nested-tree splitter writes,
\* inclusionTerms and excludes1 are each null or one list of strings, and
\* notes is null or one string.
C14_NotesFlattened ==
    script = "icd" =>
    \A k \in 1..Len(writes) :
       LET written == writes[k].content.v IN
       /\ Get(written, <<"inclusionTerms">>) = PyNone
             \/ ListOfStrings(Get(written, <<"inclusionTerms">>))
       /\ Get(written, <<"excludes1">>) = PyNone
             \/ ListOfStrings(Get(written, <<"excludes1">>))
       /\ Get(written, <<"notes">>).t \in {"null", "str"}

\* the lines of the second report, in the order printed
SecondReport == SelectSeq(log, LAMBDA line : line[1] = "by_dur")

\* C15 as claimed: the second report lists the entries by duration, the
\* longest first: of two consecutive lines, the first has a duration at
\* least that of the second.
C15_LongestFirst ==
    (script = "traces" /\ pc = "done")
    => \A k \in 1..(Len(SecondReport) - 1) :
          Number(SecondReport[k][2].duration) >= Number(SecondReport[k + 1][2].duration)

\* the traces read so far that carry an executionTime
Timed ==
    {k \in 1..i :
        LET meta == Get(Traces[k].v, <<"metadata">>) IN
        meta.t = "dict" /\ Get(meta.v, <<"executionTime">>).t # "null"}

\* the j-th of them
TimedAt(j) == CHOOSE k \in Timed : Cardinality({m \in Timed : m <= k}) = j

\* C19: parse_traces returns one entry for each trace that carries a
\* non-null executionTime and none for another trace, in the order of the
\* input; the entry has the component of its trace, its stepId (the empty
\* string when the trace has none) and its executionTime as duration; a
\* trace without a usable timestamp is kept like the others.
C19_EntriesAreTimedTraces ==
    (script = "traces" /\ pc \in {"loop", "done"})
    => /\ Len(entries) = Cardinality(Timed)
       /\ \A j \in 1..Len(entries) :
             LET trace == Traces[TimedAt(j)].v IN
             /\ entries[j].component = Get(trace, <<"component">>)
             /\ entries[j].stepId = IF HasKey(trace, <<"stepId">>)
                                    THEN Get(trace, <<"stepId">>) ELSE PyStr(<<>>)
             /\ entries[j].duration
                   = Get(Get(trace, <<"metadata">>).v, <<"executionTime">>)
       /\ pc = "done" => i = Len(Traces)

\* a trace without executionTime between one without timestamp and one
\* whose timestamp is not a number: the first and the last are kept
C19_Witness ==
    /\ script = "traces" /\ pc = "done"
    /\ Len(Traces) = 3
    /\ ~HasKey(Traces[1].v, <<"timestamp">>)
    /\ Timed = {1, 3}
    /\ Len(entries) = 2
    /\ entries[1].timestamp = <<"None">> /\ entries[1].stepId = PyStr(<<"s4">>)
    /\ entries[2].timestamp = <<"soon">> /\ entries[2].stepId = PyStr(<<>>)

\* val holds the key somewhere: in val itself or in a dict, a list or a
\* tuple below it
RECURSIVE HoldsKey(_, _)
HoldsKey(val, key) ==
    IF val.t = "dict"
    THEN \E k \in 1..Len(val.v) : val.v[k][1] = key \/ HoldsKey(val.v[k][2], key)
    ELSE IF val.t \in {"list", "tuple"}
    THEN \E k \in 1..Len(val.v) : HoldsKey(val.v[k], key)
    ELSE FALSE

\* the ways down val: a way is the keys and places gone through, with the
\* value at its end when that value is not a dict, a list or a tuple, and
\* with the type of the value otherwise
RECURSIVE Ways(_)
Ways(val) ==
    IF val.t = "dict"
    THEN {<< <<"type", val.t>> >>}
         \cup UNION {{<< <<"key", val.v[k][1]>> >> \o w : w \in Ways(val.v[k][2])}
                     : k \in 1..Len(val.v)}
    ELSE IF val.t \in {"list", "tuple"}
    THEN {<< <<"type", val.t>> >>}
         \cup UNION {{<< <<"place", k>> >> \o w : w \in Ways(val.v[k])}
                     : k \in 1..Len(val.v)}
    ELSE {<< <<"end", val>> >>}

\* the document of a result
DocumentOf(r) ==
    CASE r.t = "object" -> r.v[1]
      [] r.t = "mapping" -> PyDict(r.v)
      [] OTHER -> r

Returned == Get(out.v, <<"results">>).v

\* C16: no document in the results search returns holds a key text_vector
\* at any depth, in a dict, a list or a tuple; and it holds every other key
\* and value of the document found: the ways down the returned document are
\* the ways down the found one that do not go through a key text_vector.
C16_TextVectorStripped ==
    (script = "search" /\ pc = "done")
    => /\ Len(Returned) = Len(doc.v)
       /\ \A k \in 1..Len(Returned) :
             /\ ~HoldsKey(Returned[k], text_vector)
             /\ Ways(Returned[k])
                   = {w \in Ways(DocumentOf(doc.v[k])) :
                         \A n \in 1..Len(w) : w[n] # <<"key", text_vector>>}

\* a document with a text_vector inside a list or a tuple under parent_id
C16_Witness ==
    /\ script = "search" /\ pc = "done"
    /\ \E k \in 1..Len(doc.v) :
          /\ doc.v[k].t = "dict"
          /\ Get(doc.v[k].v, parent_id).t \in {"list", "tuple"}
          /\ HoldsKey(Get(doc.v[k].v, parent_id), text_vector)
          /\ Get(Returned[k].v, parent_id).t = Get(doc.v[k].v, parent_id).t
          /\ Get(Returned[k].v, parent_id).v = <<PyDict(<<>>)>>

\* the entries of a list input read so far that carry a code
Coded == {k \in 1..i : doc.v[k].t = "dict" /\ Get(doc.v[k].v, HCPCS).t # "null"}

\* the name of the file of the k-th entry of a list input
RvuFile(k) == Strip(Str(Get(doc.v[k].v, HCPCS))) \o <<".json">>

\* the calls of process_diag_entry made so far on an entry with a name and
\* a desc
Recorded(walk) ==
    {n \in 1..i : NonEmptyStr(Get(walk[n].entry.v, name))
                  /\ NonEmptyStr(Get(walk[n].entry.v, desc))}

IcdFile(walk, n) == Get(walk[n].entry.v, name).v \o <<".json">>

\* C17: every file a run of the list splitter or of the nested-tree
\* splitter has written is named by the code of an input record, and holds
\* the record that comes last, in the order of the traversal, among the
\* records read so far that have this code; every record with a code is
\* written and counted, also when its code was met before, and nothing else
\* is printed about it.
C17_LastWriteWins ==
    /\ (script = "rvu" /\ doc.t = "list")
       => /\ WrittenNames = {RvuFile(k) : k \in Coded}
          /\ \A k \in Coded :
                LET last == CHOOSE m \in Coded :
                               /\ RvuFile(m) = RvuFile(k)
                               /\ \A n \in Coded : RvuFile(n) = RvuFile(k) => n <= m
                    raw == Get(doc.v[last].v, Desc)
                IN  /\ RvuFile(k) \in DOMAIN fs
                    /\ \E w \in 1..Len(writes) :
                          writes[w].src = last /\ fs[RvuFile(k)] = writes[w].content
                    /\ Get(fs[RvuFile(k)].v, Desc)
                          = IF raw.t = "str" THEN PyStr(Strip(raw.v)) ELSE PyNone
          /\ count = Cardinality(Coded) /\ Len(writes) = Cardinality(Coded)
          /\ LogKinds \subseteq {"Skipping record without HCPCS", "Processed",
                                 "OSError", "AttributeError"}
    /\ (script = "icd" /\ HasTree)
       => LET walk == Walk IN
          /\ WrittenNames = {IcdFile(walk, n) : n \in Recorded(walk)}
          /\ \A n \in Recorded(walk) :
                LET last == CHOOSE m \in Recorded(walk) :
                               /\ IcdFile(walk, m) = IcdFile(walk, n)
                               /\ \A q \in Recorded(walk) :
                                     IcdFile(walk, q) = IcdFile(walk, n) => q <= m
                    written == fs[IcdFile(walk, n)].v
                IN  /\ IcdFile(walk, n) \in DOMAIN fs
                    /\ Get(written, <<"code">>) = Get(walk[last].entry.v, name)
                    /\ Get(written, <<"description">>) = Get(walk[last].entry.v, desc)
                    /\ Get(written, <<"chapter">>) = walk[last].chapter
                    /\ Get(written, <<"block">>) = walk[last].block
          /\ Len(writes) = Cardinality(Recorded(walk))
          /\ Len(SelectSeq(log, LAMBDA line : line[1] = "Created"))
                = Cardinality(Recorded(walk))
          /\ LogKinds \subseteq {"Created", "OSError", "TypeError"}

\* two records of code A1 with different fields: two counted, one file,
\* holding the second
C17_Witness ==
    /\ script = "rvu" /\ pc = "done" /\ run = 1
    /\ Len(doc.v) = 2 /\ Coded = {1, 2}
    /\ RvuFile(1) = RvuFile(2)
    /\ Get(doc.v[1].v, Desc) = PyStr(<<Space, "widget", Space>>)
    /\ Get(doc.v[2].v, Desc) = PyNaN
    /\ count = 2 /\ Cardinality(DOMAIN fs) = 1
    /\ Get(fs[<<"A1", ".json">>].v, Desc) = PyNone

\* what a file name is without its ".json"
Stem(fname) == SubSeq(fname, 1, Len(fname) - 1)

\* C20: a file named <c>.json that the list splitter has written has one
\* HCPCS field, holding the string c, which is the trimmed string form of
\* the raw code of its record, whatever other field of the record has a
\* name that normalizes to HCPCS; a file named <c>.json that the nested-tree
\* splitter has written has the code c.
C20_StoredCodeIsFileName ==
    /\ (script = "rvu" /\ doc.t = "list")
       => /\ \A k \in 1..Len(writes) :
                LET written == writes[k].content.v
                    raw_code == Get(doc.v[writes[k].src].v, HCPCS)
                IN  /\ Cardinality({j \in 1..Len(written) : written[j][1] = HCPCS}) = 1
                    /\ Get(written, HCPCS) = PyStr(Stem(writes[k].name))
                    /\ raw_code.t = "str" => Stem(writes[k].name) = Strip(raw_code.v)
                    /\ raw_code.t = "num" => Stem(writes[k].name) = raw_code.v
          /\ \A f \in WrittenNames :
                f \in DOMAIN fs /\ Get(fs[f].v, HCPCS) = PyStr(Stem(f))
    /\ (script = "icd" /\ HasTree)
       => /\ \A k \in 1..Len(writes) :
                Get(writes[k].content.v, <<"code">>) = PyStr(Stem(writes[k].name))
          /\ \A f \in WrittenNames :
                f \in DOMAIN fs /\ Get(fs[f].v, <<"code">>) = PyStr(Stem(f))

\* the record {"HCPCS": 7, " HCPCS": "C3"}, written to 7.json with HCPCS "7"
C20_Witness ==
    /\ script = "rvu" /\ pc = "done"
    /\ \E k \in 1..Len(writes) :
          /\ HasKey(doc.v[writes[k].src].v, <<Space, "HCPCS">>)
          /\ writes[k].name = <<"7", ".json">>
          /\ fs[<<"7", ".json">>] = PyDict(<< <<HCPCS, PyStr(<<"7">>)>> >>)

BothDone == \A p \in 1..2 : procs[p].pc = "done"

\* run p has a record whose file is fname
Carries(p, fname) ==
    \E k \in 1..Len(procs[p].data.v) :
       RaceItemAt(p, k).coded /\ FileName(RaceItemAt(p, k).code) = fname

\* C18 as claimed: when two runs on the same output directory have ended,
\* every file they wrote holds the record of the run that wrote it last.
C18_LastRunWins ==
    BothDone
    => \A w \in 1..Len(writes) :
          fs[writes[w].name] = RaceItemAt(writes[w].src, writes[w].item).record

\* C18, amended: when two runs on the same output directory have ended, a
\* file is there for every code of either run; it holds the record of the
\* run that wrote it last when no other run opened or wrote the file
\* between that run's opening and writing it, and so when only one run has
\* the code; a file of a code of neither run is as it was.
C18_LastRunWinsWhenAlone ==
    BothDone
    => /\ \A p \in 1..2 : \A k \in 1..Len(procs[p].data.v) :
             RaceItemAt(p, k).coded
             => \E w \in 1..Len(writes) :
                   writes[w].name = FileName(RaceItemAt(p, k).code)
       /\ \A w \in 1..Len(writes) :
             LET last == RaceItemAt(writes[w].src, writes[w].item) IN
             /\ last.coded /\ FileName(last.code) = writes[w].name
             /\ writes[w].name \in DOMAIN fs
             /\ writes[w].alone => fs[writes[w].name] = last.record
             /\ (\E p \in 1..2 : ~Carries(p, writes[w].name))
                   => writes[w].alone /\ fs[writes[w].name] = last.record
       /\ \A f \in DOMAIN fs :
             (\A p \in 1..2 : ~Carries(p, f)) => f \in DOMAIN fs1 /\ fs[f] = fs1[f]

\* both runs had A1.json open at once, the longer record was written
\* first, and parts of both are in the file
C18_Witness ==
    /\ BothDone /\ script = "split"
    /\ Carries(1, <<"A1", ".json">>) /\ Carries(2, <<"A1", ".json">>)
    /\ Carries(1, <<"B2", ".json">>) /\ ~Carries(2, <<"B2", ".json">>)
    /\ fs[<<"A1", ".json">>] = Torn(PyNum("2"), 4)
    /\ \E w \in 1..Len(writes) :
          writes[w].name = <<"A1", ".json">> /\ ~writes[w].alone

\* a field name with each en-dash made a hyphen and the whitespace around
\* it taken off
Canonical(key) ==
    LET dashed == [n \in 1..Len(key) |-> IF key[n] = EnDash THEN Hyphen ELSE key[n]]
        first == CHOOSE a \in 1..(Len(key) + 1) :
                    /\ \A n \in 1..(a - 1) : key[n] = Space
                    /\ a <= Len(key) => key[a] # Space
        last == CHOOSE b \in 0..Len(key) :
                    /\ \A n \in (b + 1)..Len(key) : key[n] = Space
                    /\ b >= 1 => key[b] # Space
    IN  IF first > last THEN <<>> ELSE SubSeq(dashed, first, last)

\* the value of a field as it is written
Normal(val) ==
    CASE val.t = "NaN" -> PyNone
      [] val.t = "str" -> PyStr(Canonical(val.v))
      [] OTHER -> val

\* the record has no field named HCPCS, as it is, with a value
NoRawCode(rec) ==
    \A j \in 1..Len(rec) : rec[j][1] = <<"HCPCS">> => rec[j][2].t = "null"

\* the last field of the record whose name normalizes to key
LastNamed(rec, key) ==
    CHOOSE j \in 1..Len(rec) :
       /\ Canonical(rec[j][1]) = key
       /\ \A n \in (j + 1)..Len(rec) : Canonical(rec[n][1]) # key

\* two fields of the record have names that normalize to key
Collides(rec, key) ==
    \E a, b \in 1..Len(rec) :
       a # b /\ Canonical(rec[a][1]) = key /\ Canonical(rec[b][1]) = key

\* C21 as claimed: a record without a field named HCPCS as it is (also one
\* with a field named " HCPCS") is skipped; a written record has one entry
\* for each normalized field name, and where two field names normalize to
\* the same key the entry holds the normalized value of the last field of
\* the input record whose name normalizes to it.
C21_LaterFieldWins ==
    (script = "rvu" /\ pc = "done")
    => /\ NoRawCode(TheRecord)
          => writes = <<>> /\ count = 0
             /\ "Skipping record without HCPCS" \in LogKinds
       /\ \A k \in 1..Len(writes) :
             LET written == writes[k].content.v IN
             /\ \A a, b \in 1..Len(written) : written[a][1] = written[b][1] => a = b
             /\ \A j \in 1..Len(TheRecord) :
                   LET key == Canonical(TheRecord[j][1]) IN
                   /\ HasKey(written, key)
                   /\ Collides(TheRecord, key)
                         => Get(written, key)
                               = Normal(TheRecord[LastNamed(TheRecord, key)][2])

\* C21, amended: a record without a field named HCPCS as it is (also one
\* with a field named " HCPCS") is skipped; a written record has one entry
\* for each normalized field name; for a name other than HCPCS the entry
\* holds the normalized value of the last field of the input record whose
\* name normalizes to it, and the entry HCPCS holds the trimmed string form
\* of the value of the field named HCPCS as it is, whatever comes later.
C21_LaterFieldWinsButCode ==
    (script = "rvu" /\ pc = "done")
    => /\ NoRawCode(TheRecord)
          => writes = <<>> /\ count = 0
             /\ "Skipping record without HCPCS" \in LogKinds
       /\ ~NoRawCode(TheRecord) => Len(writes) = 1
       /\ \A k \in 1..Len(writes) :
             LET written == writes[k].content.v
                 raw_code == TheRecord[CHOOSE j \in 1..Len(TheRecord) :
                                          TheRecord[j][1] = <<"HCPCS">>][2]
             IN
             /\ \A a, b \in 1..Len(written) : written[a][1] = written[b][1] => a = b
             /\ \A j \in 1..Len(TheRecord) :
                   LET key == Canonical(TheRecord[j][1]) IN
                   /\ HasKey(written, key)
                   /\ key # <<"HCPCS">>
                         => Get(written, key)
                               = Normal(TheRecord[LastNamed(TheRecord, key)][2])
             /\ raw_code.t = "str" => Get(written, HCPCS) = PyStr(Canonical(raw_code.v))
             /\ raw_code.t = "num" => Get(written, HCPCS) = PyStr(raw_code.v)
             /\ raw_code.t = "NaN" => Get(written, HCPCS) = PyStr(<<"nan">>)

\* HCPCS, " Mod-A " and Mod<en-dash>A: the last of the two Mod-A fields is
\* the one written
C21_Witness ==
    /\ script = "rvu" /\ pc = "done" /\ Len(writes) = 1
    /\ Len(TheRecord) = 3
    /\ TheRecord[1][1] = <<"HCPCS">>
    /\ TheRecord[2] = <<<<Space, "Mod", Hyphen, "A", Space>>, PyNum("7")>>
    /\ TheRecord[3] = <<<<"Mod", EnDash, "A">>, PyStr(<<Space, "A1", Space>>)>>
    /\ Len(writes[1].content.v) = 2
    /\ Get(writes[1].content.v, <<"Mod", Hyphen, "A">>) = PyStr(<<"A1">>)

\* the calls of process_diag_entry still to be made: those that wait and,
\* under each, the calls it will make
Pending ==
    Concat([k \in 1..Len(todo) |->
              WalkEntries(<<todo[k].entry>>, todo[k].chapter, todo[k].block)])

\* the calls made so far that were for an entry with a name and a desc
WrittenCalls(walk) == {n \in 1..i : Qualifies(walk[n].entry)}

\* what holds of a traversal at every moment: the i calls made were for the
\* first i diag entries of the document, one each, the calls to come are
\* for the entries after them, one each, and there is one write for each
\* call made for an entry with a name and a desc
ExactlyOnce ==
    (script = "icd" /\ HasTree /\ pc # "start")
    => LET walk == Walk IN
       /\ i <= Len(walk)
       /\ pc = "loop" => Pending = SubSeq(walk, i + 1, Len(walk))
       /\ pc = "done" => i = Len(walk) /\ todo = <<>>
       /\ Len(writes) = Cardinality(WrittenCalls(walk))
       /\ \A n \in WrittenCalls(walk) :
             Cardinality({k \in 1..Len(writes) : writes[k].src = n}) = 1
       /\ pc = "done"
             => Len(writes) = Cardinality({n \in 1..Len(walk) : Qualifies(walk[n].entry)})

\* how far a run is from its end: the stage it is in, then the calls to come
Stage == CASE pc = "start" -> 2 [] pc = "loop" -> 1 [] OTHER -> 0

\* a step brings the run nearer to its end: a later stage, or the same
\* stage with fewer calls to come
Nearer ==
    \/ Stage' < Stage
    \/ Stage' = Stage /\ Len(Pending') < Len(Pending)

\* a traversal that has not ended has a step to take
Goes == (script = "icd" /\ pc = "loop") => ENABLED (IcdEntry \/ IcdDone)

\* C22: the traversal of a nested tree ends (until it has ended it has a
\* step to take, and every step leaves a later stage or fewer calls to
\* come), and process_diag_entry is called once for each diag entry of
\* every section and of every nested diag list, in document order: at every
\* moment the calls made are for the first entries and the calls to come
\* for the rest, and the number of writes is the number of entries with a
\* name and a desc among those the calls were made for; at the end of a
\* complete traversal that is every diag entry of the tree.
C22_TraversalEndsEachEntryOnce ==
    /\ [](ExactlyOnce /\ Goes)
    /\ [][Nearer]_vars

\* a complete traversal of an entry without desc over a record over a
\* record, two writes for three calls
C22_Witness ==
    /\ script = "icd" /\ HasTree /\ pc = "done"
    /\ i = 3 /\ Len(Walk) = 3 /\ Len(writes) = 2
    /\ ~Qualifies(Walk[1].entry)
    /\ HasKey(Walk[1].entry.v, diag) /\ HasKey(Walk[2].entry.v, diag)

====
